---- MODULE Spec2Model ----
(***************************************************************************)
(* Model of src/llm/prompts.py: _load_template, _extract_input_variables   *)
(* and get_prompt.  A Python str that is scanned by the regular expression *)
(* is a sequence of one-character strings; identifiers and paths are       *)
(* strings.  An optional argument is a record [some, val]: None has        *)
(* some = FALSE.                                                           *)
(***************************************************************************)
EXTENDS Integers, Sequences, FiniteSets, TLC

(* ------------------------------ bounds -------------------------------- *)

\* longest literal template enumerated exhaustively over Alphabet
MaxLen == 3
\* longest file content enumerated exhaustively over Alphabet
MaxFileLen == 0

(* ------------------------- characters and text ------------------------ *)

LBrace == "{"
RBrace == "}"
Newline == "\n"

Alphabet == {LBrace, RBrace, "a", Newline}

RECURSIVE SeqsUpTo(_, _)
SeqsUpTo(S, n) ==
  IF n = 0 THEN {<<>>}
  ELSE LET shorter == SeqsUpTo(S, n - 1)
       IN  shorter \cup {Append(s, c) : s \in {x \in shorter : Len(x) = n - 1}, c \in S}

\* "{a}{a}{}"
ExampleRepeated == <<"{", "a", "}", "{", "a", "}", "{", "}">>
\* "{a{b}"
ExampleNested == <<"{", "a", "{", "b", "}">>
\* "Hello {name}, welcome to {place}!", the docstring's example
ExampleHello ==
  <<"H", "e", "l", "l", "o", " ", "{", "n", "a", "m", "e",
    "}", ",", " ", "w", "e", "l", "c", "o", "m", "e", " ",
    "t", "o", " ", "{", "p", "l", "a", "c", "e", "}", "!">>
\* "{a\n{a}}"
ExampleMultiline == <<"{", "a", Newline, "{", "a", "}", "}">>

Templates ==
  SeqsUpTo(Alphabet, MaxLen) \cup {ExampleRepeated, ExampleNested, ExampleHello, ExampleMultiline}

FileContents ==
  SeqsUpTo(Alphabet, MaxFileLen)
    \cup {ExampleHello, ExampleNested, ExampleRepeated, <<LBrace, Newline, RBrace>>}

(* ------------------------- optional arguments ------------------------- *)

NoneStr == [some |-> FALSE, val |-> ""]
SomeStr(s) == [some |-> TRUE, val |-> s]
NoneText == [some |-> FALSE, val |-> <<>>]
SomeText(t) == [some |-> TRUE, val |-> t]

\* the tests written `is not None`: an empty string counts as given
IsGivenStr(o) == o.some
IsGivenText(o) == o.some

\* Python truth value of an optional str: None and "" are falsy
TruthyStr(o) == o.some /\ o.val # ""
TruthyText(o) == o.some /\ o.val # <<>>

(* ----------------------------- file system ---------------------------- *)

TEMPLATES_ROOT_PATH == "templates"

\* f"template_{template_name}.txt" joined to the templates root
TemplatePath(template_name) ==
  TEMPLATES_ROOT_PATH \o "/" \o ("template_" \o template_name \o ".txt")

\* identifiers a caller passes, and the ones that have a directory entry
Identifiers == {"", "hello", "absent"}
StoredIdentifiers == {"", "hello"}

Missing == [kind |-> "missing", content |-> <<>>]
Denied == [kind |-> "denied", content |-> <<>>]
Undecodable == [kind |-> "undecodable", content |-> <<>>]
File(c) == [kind |-> "file", content |-> c]

FileStates == {Missing, Denied, Undecodable} \cup {File(c) : c \in FileContents}

Lookup(dir, path) == IF path \in DOMAIN dir THEN dir[path] ELSE Missing

(* ----------------------- _extract_input_variables --------------------- *)

\* the group written with re.DOTALL: "." consumes newlines too
RECURSIVE LazyEndDotAll(_, _)
LazyEndDotAll(s, j) ==
  IF j > Len(s) THEN 0
  ELSE IF s[j] = RBrace THEN j
  ELSE LazyEndDotAll(s, j + 1)

\* the group written greedy, (.*): the last closing brace of the line
GreedyEnd(s, j) ==
  LET stop == IF \E k \in j..Len(s) : s[k] = Newline
                THEN CHOOSE k \in j..Len(s) :
                       s[k] = Newline /\ \A h \in j..(k - 1) : s[h] # Newline
                ELSE Len(s) + 1
      closers == {k \in j..(stop - 1) : s[k] = RBrace}
  IN  IF closers = {} THEN 0
      ELSE CHOOSE k \in closers : \A h \in closers : h <= k

\* the lazy group (.*?) followed by \} , tried from position j: the engine first
\* tries to end the group here, and lets "." consume one more character otherwise;
\* "." matches every character but a newline.  0: no match from this start.
RECURSIVE LazyEnd(_, _)
LazyEnd(s, j) ==
  IF j > Len(s) THEN 0
  ELSE IF s[j] = RBrace THEN j
  ELSE IF s[j] = Newline THEN 0
  ELSE LazyEnd(s, j + 1)

\* the pattern \{(.*?)\} anchored at position i: the position of the closing
\* brace of the match, or 0
MatchAt(s, i) == IF s[i] = LBrace THEN LazyEnd(s, i + 1) ELSE 0

\* re.findall: leftmost non-overlapping matches from pos on, each reported as
\* its one capture group
RECURSIVE FindAllFrom(_, _)
FindAllFrom(s, pos) ==
  IF pos > Len(s) THEN <<>>
  ELSE LET e == MatchAt(s, pos)
       IN  IF e = 0 THEN FindAllFrom(s, pos + 1)
           ELSE <<SubSeq(s, pos + 1, e - 1)>> \o FindAllFrom(s, e + 1)

ExtractInputVariables(t) == FindAllFrom(t, 1)

(* ------------------------------ get_prompt ---------------------------- *)

NoValue == [kind |-> "none", messages |-> <<>>]

\* the prompt built from template.strip(): line breaks at the ends are dropped
RECURSIVE Strip(_)
Strip(t) ==
  IF t = <<>> THEN t
  ELSE IF Head(t) = Newline THEN Strip(Tail(t))
  ELSE IF t[Len(t)] = Newline THEN Strip(SubSeq(t, 1, Len(t) - 1))
  ELSE t

ChatPromptStripped(t, vars) ==
  [kind |-> "ChatPromptTemplate",
   messages |-> << [role |-> "human", template |-> Strip(t), input_variables |-> vars] >>]

\* ChatPromptTemplate.from_messages([HumanMessagePromptTemplate(prompt=
\*   PromptTemplate(template=..., input_variables=...))])
ChatPrompt(t, vars) ==
  [kind |-> "ChatPromptTemplate",
   messages |-> << [role |-> "human", template |-> t, input_variables |-> vars] >>]

VARIABLES
  fs,               \* the templates directory: path -> file state
  pc,               \* the line get_prompt / _load_template is at
  args,             \* the arguments of the call in progress
  template,         \* get_prompt's parameter/local `template`
  input_variables,  \* get_prompt's local `input_variables`
  exc,              \* the exception in flight or raised ("none" when there is none)
  result,           \* the value returned to the caller
  events,           \* the effects of the call so far, in order
  log               \* the entries the call handed to logging

vars == <<fs, pc, args, template, input_variables, exc, result, events, log>>

NameArgs == {NoneStr} \cup {SomeStr(n) : n \in Identifiers}
TextArgs == {NoneText} \cup {SomeText(t) : t \in Templates}

Init ==
  /\ fs \in [{TemplatePath(n) : n \in StoredIdentifiers} -> FileStates]
  /\ pc = "idle"
  /\ args = [template_name |-> NoneStr, template |-> NoneText]
  /\ template = NoneText
  /\ input_variables = <<>>
  /\ exc = "none"
  /\ result = NoValue
  /\ events = <<>>
  /\ log = <<>>

\* a caller invokes get_prompt(template_name, template)
Call ==
  /\ pc = "idle"
  /\ \E n \in NameArgs, t \in TextArgs :
       /\ args' = [template_name |-> n, template |-> t]
       /\ template' = t
  /\ pc' = "L104"
  /\ input_variables' = <<>>
  /\ exc' = "none"
  /\ result' = NoValue
  /\ events' = <<>>
  /\ log' = <<>>
  /\ UNCHANGED fs

\* lines 104-107 with the precedence reversed: a supplied literal text wins
BranchLiteralFirst ==
  /\ pc = "L104"
  /\ IF TruthyText(template)
       THEN /\ pc' = "L109"
            /\ UNCHANGED <<exc, events>>
       ELSE IF TruthyStr(args.template_name)
         THEN /\ pc' = "L44"
              /\ UNCHANGED <<exc, events>>
         ELSE /\ pc' = "raised"
              /\ exc' = "ValueError"
              /\ events' = Append(events, "raise")
  /\ UNCHANGED <<fs, args, template, input_variables, result, log>>

\* lines 104-107 without the elif: nothing is validated
BranchUnchecked ==
  /\ pc = "L104"
  /\ pc' = IF TruthyStr(args.template_name) THEN "L44" ELSE "L109"
  /\ UNCHANGED <<fs, args, template, input_variables, exc, result, events, log>>

\* lines 104-107 with the test `if template_name or template`: a literal text
\* alone sends the call to the loader as well
BranchLoadsAlways ==
  /\ pc = "L104"
  /\ IF TruthyStr(args.template_name) \/ TruthyText(template)
       THEN /\ pc' = "L44"
            /\ UNCHANGED <<exc, events>>
       ELSE /\ pc' = "raised"
            /\ exc' = "ValueError"
            /\ events' = Append(events, "raise")
  /\ UNCHANGED <<fs, args, template, input_variables, result, log>>

\* lines 104-107: which source drives the resolution
Branch ==
  /\ pc = "L104"
  /\ IF TruthyStr(args.template_name)
       THEN /\ pc' = "L44"
            /\ UNCHANGED <<exc, events>>
       ELSE IF ~TruthyText(template)
         THEN /\ pc' = "raised"
              /\ exc' = "ValueError"
              /\ events' = Append(events, "raise")
         ELSE /\ pc' = "L109"
              /\ UNCHANGED <<exc, events>>
  /\ UNCHANGED <<fs, args, template, input_variables, result, log>>

\* line 44: open(template_path, "r")
Open ==
  /\ pc = "L44"
  /\ LET f == Lookup(fs, TemplatePath(args.template_name.val))
     IN  /\ events' = Append(events, "open")
         /\ CASE f.kind = "missing" -> pc' = "L48" /\ exc' = "FileNotFoundError"
              [] f.kind = "denied"  -> pc' = "L51" /\ exc' = "PermissionError"
              [] OTHER              -> pc' = "L45" /\ exc' = exc
  /\ UNCHANGED <<fs, args, template, input_variables, result, log>>

\* line 45: file.read(), and the with block's close
Read ==
  /\ pc = "L45"
  /\ LET f == Lookup(fs, TemplatePath(args.template_name.val))
     IN  IF f.kind = "undecodable"
           THEN /\ pc' = "L51"
                /\ exc' = "UnicodeDecodeError"
                /\ template' = template
           ELSE /\ pc' = "L46"
                /\ exc' = exc
                /\ template' = SomeText(f.content)
  /\ events' = events \o <<"read", "close">>
  /\ UNCHANGED <<fs, args, input_variables, result, log>>

\* lines 46-47 and the assignment of line 105
LoadedInfo ==
  /\ pc = "L46"
  /\ log' = Append(log, [level |-> "INFO", about |-> args.template_name.val])
  /\ events' = Append(events, "logging.info")
  /\ pc' = "L109"
  /\ UNCHANGED <<fs, args, template, input_variables, exc, result>>

\* lines 48-50 recovering instead of re-raising: a supplied literal text is used
\* when the file is missing
ExceptFileNotFoundFallback ==
  /\ pc = "L48"
  /\ log' = Append(log, [level |-> "ERROR", about |-> TemplatePath(args.template_name.val)])
  /\ events' = Append(events, "logging.error")
  /\ IF TruthyText(template)
       THEN pc' = "L109" /\ exc' = "none"
       ELSE pc' = "L50" /\ exc' = exc
  /\ UNCHANGED <<fs, args, template, input_variables, result>>

\* lines 48-49
ExceptFileNotFound ==
  /\ pc = "L48"
  /\ log' = Append(log, [level |-> "ERROR", about |-> TemplatePath(args.template_name.val)])
  /\ events' = Append(events, "logging.error")
  /\ pc' = "L50"
  /\ UNCHANGED <<fs, args, template, input_variables, exc, result>>

\* lines 51-53 without the logging call
ExceptExceptionSilent ==
  /\ pc = "L51"
  /\ pc' = "L53"
  /\ UNCHANGED <<fs, args, template, input_variables, exc, result, events, log>>

\* lines 51-52
ExceptException ==
  /\ pc = "L51"
  /\ log' = Append(log, [level |-> "ERROR", about |-> args.template_name.val])
  /\ events' = Append(events, "logging.error")
  /\ pc' = "L53"
  /\ UNCHANGED <<fs, args, template, input_variables, exc, result>>

\* lines 50 and 53: the bare raise; nothing in get_prompt catches it
Reraise ==
  /\ pc \in {"L50", "L53"}
  /\ events' = Append(events, "raise")
  /\ pc' = "raised"
  /\ UNCHANGED <<fs, args, template, input_variables, exc, result, log>>

\* line 109
Extract ==
  /\ pc = "L109"
  /\ input_variables' = ExtractInputVariables(template.val)
  /\ events' = Append(events, "findall")
  /\ pc' = "L111"
  /\ UNCHANGED <<fs, args, template, exc, result, log>>

\* lines 111-122
Build ==
  /\ pc = "L111"
  /\ result' = ChatPrompt(template.val, input_variables)
  /\ events' = Append(events, "return")
  /\ pc' = "returned"
  /\ UNCHANGED <<fs, args, template, input_variables, exc, log>>

\* the call is over: the caller has the prompt or the exception, and nothing of
\* the call is retained
Finish ==
  /\ pc \in {"returned", "raised"}
  /\ pc' = "idle"
  /\ args' = [template_name |-> NoneStr, template |-> NoneText]
  /\ template' = NoneText
  /\ input_variables' = <<>>
  /\ exc' = "none"
  /\ result' = NoValue
  /\ events' = <<>>
  /\ log' = <<>>
  /\ UNCHANGED fs

Next ==
  \/ Call
  \/ Branch
  \/ Open
  \/ Read
  \/ LoadedInfo
  \/ ExceptFileNotFound
  \/ ExceptException
  \/ Reraise
  \/ Extract
  \/ Build
  \/ Finish

Spec == Init /\ [][Next]_vars

(* ---------------------- vocabulary of the properties ------------------ *)

Returned == pc = "returned"
Terminated == pc \in {"returned", "raised"}
PromptText == result.messages[1].template
PromptVars == result.messages[1].input_variables

Count(seq, e) == Cardinality({k \in 1..Len(seq) : seq[k] = e})
\* the position of the first e in seq (0 when there is none)
IndexOf(seq, e) ==
  IF \E k \in 1..Len(seq) : seq[k] = e
    THEN CHOOSE k \in 1..Len(seq) : seq[k] = e /\ \A h \in 1..(k - 1) : seq[h] # e
    ELSE 0

ArgPath == TemplatePath(args.template_name.val)
ArgFile == Lookup(fs, ArgPath)

\* the first closing brace after position i (0 when there is none)
ClosingAfter(t, i) ==
  IF \E j \in (i + 1)..Len(t) : t[j] = RBrace
    THEN CHOOSE j \in (i + 1)..Len(t) :
           t[j] = RBrace /\ \A k \in (i + 1)..(j - 1) : t[k] # RBrace
    ELSE 0

\* a brace-delimited span opens at i: a "{", then characters none of which is
\* in Barred, then the closing "}"
SpanAt(t, i, Barred) ==
  /\ t[i] = LBrace
  /\ ClosingAfter(t, i) # 0
  /\ \A k \in (i + 1)..(ClosingAfter(t, i) - 1) : t[k] \notin Barred

\* the spans of t, left to right, none starting inside an earlier one
SpanStarts(t, Barred) ==
  {i \in 1..Len(t) :
     /\ SpanAt(t, i, Barred)
     /\ ~\E h \in 1..(i - 1) : SpanAt(t, h, Barred) /\ ClosingAfter(t, h) > i}

\* the inner texts of the spans of t in order of occurrence
SpanTexts(t, Barred) ==
  LET S == SpanStarts(t, Barred)
      nth(k) == CHOOSE i \in S : Cardinality({h \in S : h < i}) = k - 1
  IN  [k \in 1..Cardinality(S) |-> SubSeq(t, nth(k) + 1, ClosingAfter(t, nth(k)) - 1)]

(* -------------------------------- C1 ---------------------------------- *)

\* C1 as stated: the placeholder list of a returned prompt has one entry per
\* brace-delimited span of the template text ("{", any characters, the closing
\* "}"), each the span's inner text, in order of occurrence, repeats and empty
\* names included.
C1_AnyCharacterSpans ==
  Returned => PromptVars = SpanTexts(PromptText, {})

\* C1 amended: the same, for the spans whose inner text holds no line break
\* (a "{" whose closing "}" lies beyond a line break opens no span).
C1_SingleLineSpans ==
  Returned => PromptVars = SpanTexts(PromptText, {Newline})

\* "{a}{a}{}" has been resolved to ["a", "a", ""]
C1_Witness ==
  /\ Returned
  /\ PromptText = ExampleRepeated
  /\ PromptVars = << <<"a">>, <<"a">>, <<>> >>

(* -------------------------------- C9 ---------------------------------- *)

\* C9 as stated: no entry of the placeholder list contains a "{" or a "}".
C9_NoBraceInEntry ==
  Returned =>
    \A k \in 1..Len(PromptVars) :
      \A h \in 1..Len(PromptVars[k]) : PromptVars[k][h] \notin {LBrace, RBrace}

\* C9 amended: no entry of the placeholder list contains a "}"; an entry runs
\* from a "{" to the first "}" after it and may itself contain "{".
C9_NoClosingBraceInEntry ==
  Returned =>
    \A k \in 1..Len(PromptVars) :
      \A h \in 1..Len(PromptVars[k]) : PromptVars[k][h] # RBrace

\* "{a{b}" has been resolved to ["a{b"]
C9_Witness ==
  /\ Returned
  /\ PromptText = ExampleNested
  /\ PromptVars = << <<"a", LBrace, "b">> >>

(* -------------------------------- C2 ---------------------------------- *)

\* C2 as stated: for every literal template text t, get_prompt(template=t) with
\* no template_name returns a prompt whose template text is t, unchanged.
C2_EveryLiteralReturned ==
  (Terminated /\ args.template_name = NoneStr /\ args.template.some) =>
    (Returned /\ PromptText = args.template.val)

\* C2 amended: the same for every non-empty literal template text t.
C2_NonEmptyLiteralReturned ==
  (Terminated /\ args.template_name = NoneStr /\ TruthyText(args.template)) =>
    (Returned /\ PromptText = args.template.val)

\* a literal text with line breaks and unbalanced braces came back as it was
C2_Witness ==
  /\ Returned
  /\ args.template_name = NoneStr
  /\ args.template = SomeText(<<Newline, LBrace, Newline>>)
  /\ PromptText = <<Newline, LBrace, Newline>>

(* -------------------------------- C3 ---------------------------------- *)

\* C3 as stated: for every identifier and literal text supplied together, the
\* returned prompt's text and placeholder list are those of the identifier's
\* file, whatever the literal text.
C3_EveryIdentifierWins ==
  (Returned /\ args.template_name.some /\ args.template.some) =>
    /\ ArgFile.kind = "file"
    /\ PromptText = ArgFile.content
    /\ PromptVars = SpanTexts(ArgFile.content, {Newline})

\* C3 amended: the same for every non-empty identifier.
C3_NonEmptyIdentifierWins ==
  (Returned /\ TruthyStr(args.template_name) /\ args.template.some) =>
    /\ ArgFile.kind = "file"
    /\ PromptText = ArgFile.content
    /\ PromptVars = SpanTexts(ArgFile.content, {Newline})

\* identifier "hello" and the literal "{a}" were supplied; the file's text won
C3_Witness ==
  /\ Returned
  /\ args.template_name = SomeStr("hello")
  /\ args.template = SomeText(<<LBrace, "a", RBrace>>)
  /\ ArgFile = File(ExampleHello)
  /\ PromptText = ExampleHello
  /\ PromptVars = << <<"n", "a", "m", "e">>, <<"p", "l", "a", "c", "e">> >>

(* -------------------------------- C4 ---------------------------------- *)

\* the exception open() or read() raises on a file in state f
ReadFailure(f) ==
  CASE f.kind = "missing"     -> "FileNotFoundError"
    [] f.kind = "denied"      -> "PermissionError"
    [] f.kind = "undecodable" -> "UnicodeDecodeError"
    [] OTHER                  -> "none"

\* what C4 says of a call whose file cannot be loaded: one attempt to open it,
\* never a prompt, never the literal text taken instead, and at the end the
\* loader's own exception with the caller
LoadFailureSurfaces ==
  /\ Count(events, "open") <= 1
  /\ result = NoValue
  /\ pc \notin {"L109", "L111", "returned"}
  /\ Terminated =>
       /\ pc = "raised"
       /\ exc = ReadFailure(ArgFile)
       /\ Count(events, "open") = 1

\* C4 as stated: get_prompt with an identifier whose path does not exist fails
\* with FileNotFoundError, with any other read failure fails with that
\* failure; the read is attempted once, there is no fallback to a supplied
\* literal text and no prompt is returned.
C4_EveryIdentifierFails ==
  (pc # "idle" /\ args.template_name.some /\ ArgFile.kind # "file") => LoadFailureSurfaces

\* C4 amended: the same for every non-empty identifier.
C4_NonEmptyIdentifierFails ==
  (pc # "idle" /\ TruthyStr(args.template_name) /\ ArgFile.kind # "file") => LoadFailureSurfaces

\* identifier "absent" has no file; a literal text was supplied with it, and the
\* caller has the FileNotFoundError after one attempt to open
C4_Witness ==
  /\ pc = "raised"
  /\ args.template_name = SomeStr("absent")
  /\ TruthyText(args.template)
  /\ exc = "FileNotFoundError"
  /\ Count(events, "open") = 1
  /\ result = NoValue

(* -------------------------------- C5 ---------------------------------- *)

\* C5: get_prompt with neither template_name nor template fails with
\* ValueError, and nothing happens before: no file is opened, nothing is
\* logged, no placeholder is extracted.
C5_NeitherGiven ==
  (pc \notin {"idle", "L104"} /\ args.template_name = NoneStr /\ args.template = NoneText) =>
    /\ pc = "raised"
    /\ exc = "ValueError"
    /\ events = <<"raise">>
    /\ log = <<>>
    /\ input_variables = <<>>
    /\ result = NoValue

C5_Witness ==
  /\ pc = "raised"
  /\ exc = "ValueError"
  /\ args.template_name = NoneStr
  /\ args.template = NoneText
  /\ fs[TemplatePath("hello")].kind = "file"

(* -------------------------------- C6 ---------------------------------- *)

LoadAttempted == Count(events, "open") > 0

\* C6: a failed file load has logged exactly one entry, an error, before the
\* failure is raised to the caller; a successful load has logged exactly one
\* entry, an informational one, after the file was read and closed and before
\* the text is used and returned.
C6_LogOrder ==
  /\ (LoadAttempted /\ pc = "raised") =>
       /\ Count(events, "logging.error") = 1
       /\ Count(events, "logging.info") = 0
       /\ IndexOf(events, "logging.error") < IndexOf(events, "raise")
       /\ Len(log) = 1
       /\ log[1].level = "ERROR"
  /\ (LoadAttempted /\ pc \in {"L109", "L111", "returned"}) =>
       /\ Count(events, "logging.info") = 1
       /\ Count(events, "logging.error") = 0
       /\ IndexOf(events, "read") < IndexOf(events, "logging.info")
       /\ IndexOf(events, "close") < IndexOf(events, "logging.info")
       /\ Len(log) = 1
       /\ log[1].level = "INFO"
       /\ \A e \in {"findall", "return"} :
            Count(events, e) > 0 => IndexOf(events, "logging.info") < IndexOf(events, e)

\* a file that cannot be decoded: opened, read, closed, logged, then raised
C6_Witness ==
  /\ pc = "raised"
  /\ exc = "UnicodeDecodeError"
  /\ events = <<"open", "read", "close", "logging.error", "raise">>
  /\ log = << [level |-> "ERROR", about |-> "hello"] >>

(* -------------------------------- C7 ---------------------------------- *)

\* C7: get_prompt with no identifier and a literal text opens and reads no
\* file and logs nothing, and its outcome is decided by the literal text alone,
\* whatever the templates directory holds.
C7_LiteralTouchesNoFile ==
  (pc # "idle" /\ args.template_name = NoneStr /\ args.template.some) =>
    /\ Count(events, "open") = 0
    /\ Count(events, "read") = 0
    /\ log = <<>>
    /\ Returned =>
         result = ChatPrompt(args.template.val, SpanTexts(args.template.val, {Newline}))
    /\ pc = "raised" => (exc = "ValueError" /\ args.template.val = <<>>)

C7_Witness ==
  /\ Returned
  /\ args.template_name = NoneStr
  /\ args.template = SomeText(<<LBrace, "a", RBrace>>)
  /\ fs[TemplatePath("hello")] = File(ExampleHello)
  /\ events = <<"findall", "return">>

(* -------------------------------- C8 ---------------------------------- *)

\* C8: get_prompt(template="") with no template_name fails with ValueError, as
\* a call with no literal text does; no prompt with an empty text is returned.
C8_EmptyLiteralRejected ==
  (Terminated /\ args.template_name = NoneStr /\ args.template = SomeText(<<>>)) =>
    /\ pc = "raised"
    /\ exc = "ValueError"
    /\ events = <<"raise">>
    /\ result = NoValue

C8_Witness ==
  /\ pc = "raised"
  /\ exc = "ValueError"
  /\ args.template_name = NoneStr
  /\ args.template = SomeText(<<>>)

(* -------------------------------- C10 --------------------------------- *)

\* C10: get_prompt(template_name="", template=t) with non-empty t opens no file
\* and returns the prompt for t; get_prompt(template_name="") with no literal
\* text fails with ValueError and does not open template_.txt.
C10_EmptyIdentifierIgnored ==
  (pc # "idle" /\ args.template_name = SomeStr("")) =>
    /\ TruthyText(args.template) =>
         /\ Count(events, "open") = 0
         /\ Terminated =>
              /\ Returned
              /\ result = ChatPrompt(args.template.val,
                                     SpanTexts(args.template.val, {Newline}))
    /\ ~args.template.some =>
         /\ Count(events, "open") = 0
         /\ Terminated => (pc = "raised" /\ exc = "ValueError")

\* template_.txt exists with another text, and the literal text was used
C10_Witness ==
  /\ Returned
  /\ args.template_name = SomeStr("")
  /\ ArgFile = File(ExampleHello)
  /\ args.template = SomeText(<<LBrace, RBrace>>)
  /\ PromptText = <<LBrace, RBrace>>
  /\ Count(events, "open") = 0

====
